---- MODULE Spec2Model ----
(***************************************************************************)
(* The valuation engine of src/src/services/priceLookup.ts                 *)
(* (calculateValuation and the functions it calls), as a state machine.    *)
(*                                                                         *)
(* Numbers.  JavaScript numbers are modelled as exact rationals <<n, d>>   *)
(* with d > 0, always reduced.  Math.sqrt never appears: a comparison      *)
(* against mean +/- 2*stdDev is stated on the squares.                     *)
(* Time.  A Date is a number of ticks; one day is TicksPerDay ticks.       *)
(* Text.  Strings are TLA+ strings; includes, toLowerCase, toUpperCase and *)
(* split are computed character by character.                              *)
(* Absent values.  An optional string that is undefined is "", which the   *)
(* code treats alike (both are falsy); an undefined grade is NoGrade; a    *)
(* null rolling average is Null.                                           *)
(***************************************************************************)
EXTENDS Integers, Sequences, FiniteSets, TLC

VARIABLES
    metadata,        \* the target: argument of calculateValuation
    comparables,     \* the sales: argument of calculateValuation
    clock,           \* what new Date() returns now, in ticks
    startClock,      \* the clock when calculateValuation was called
    pc,              \* the position inside calculateValuation
    conditionFilteredComparables,
    scoredComparables,
    relevantComparables,
    withoutOutliers,
    rollingAverages,
    result,          \* the ValuationResult returned, NoResult before
    games,           \* useGames: the games state of the hook
    localStorage,    \* useGames: what is stored under storageKey
    loading,         \* useGames: the loading state of the hook
    gamesTable,      \* the rows of the cloud table 'games' of this user
    requests,        \* cloud requests sent and not yet served
    responses,       \* cloud responses not yet handled by their caller
    nextLocalId,     \* stands for Date.now() in the next local id
    nextUuid,        \* stands for the next id the cloud generates
    calls            \* the addGame, updateGame and deleteGame calls made

valuationVars == <<metadata, comparables, clock, startClock, pc,
                   conditionFilteredComparables, scoredComparables,
                   relevantComparables, withoutOutliers, rollingAverages, result>>

gamesVars == <<games, localStorage, loading, gamesTable, requests, responses,
               nextLocalId, nextUuid, calls>>

vars == <<valuationVars, gamesVars>>

(***************************************************************************)
(* Arithmetic on rationals                                                 *)
(***************************************************************************)
Abs(n) == IF n < 0 THEN -n ELSE n

RECURSIVE GCD(_, _)
GCD(a, b) == IF b = 0 THEN a ELSE GCD(b, a % b)

Rat(n, d) ==
    LET g == GCD(Abs(n), d) IN <<n \div g, d \div g>>

RatInt(n) == <<n, 1>>

RatAdd(x, y) ==
    LET g == GCD(x[2], y[2])
        l == (x[2] \div g) * y[2]
    IN  Rat(x[1] * (l \div x[2]) + y[1] * (l \div y[2]), l)

RatNeg(x) == <<-x[1], x[2]>>

RatSub(x, y) == RatAdd(x, RatNeg(y))

RatMul(x, y) ==
    LET a == Rat(x[1], y[2])
        b == Rat(y[1], x[2])
    IN  <<a[1] * b[1], a[2] * b[2]>>

\* x / y for y # 0
RatDiv(x, y) ==
    IF y[1] > 0 THEN RatMul(x, <<y[2], y[1]>>)
                ELSE RatMul(x, <<-y[2], -y[1]>>)

\* x <= y and x < y, compared over the least common denominator
RatLeq(x, y) ==
    LET g == GCD(x[2], y[2])
    IN  x[1] * (y[2] \div g) <= y[1] * (x[2] \div g)

RatLess(x, y) ==
    LET g == GCD(x[2], y[2])
    IN  x[1] * (y[2] \div g) < y[1] * (x[2] \div g)

RECURSIVE RatSum(_)
RatSum(s) == IF s = <<>> THEN RatInt(0) ELSE RatAdd(Head(s), RatSum(Tail(s)))

\* Math.round: the nearest integer, a tie going up
MathRound(x) == (2 * x[1] + x[2]) \div (2 * x[2])

\* Math.ceil
MathCeil(x) == -((-x[1]) \div x[2])

MathMin(a, b) == IF a <= b THEN a ELSE b

MathMax(a, b) == IF a >= b THEN a ELSE b

RECURSIVE SetToSortedSeq(_)
SetToSortedSeq(S) ==
    IF S = {} THEN <<>>
    ELSE LET m == CHOOSE x \in S : \A y \in S : x <= y
         IN  <<m>> \o SetToSortedSeq(S \ {m})

Reverse(s) == [i \in 1..Len(s) |-> s[Len(s) + 1 - i]]

(***************************************************************************)
(* Text                                                                    *)
(***************************************************************************)
UpperChars == "ABCDEFGHIJKLMNOPQRSTUVWXYZ"

LowerChars == "abcdefghijklmnopqrstuvwxyz"

Digits == "0123456789"

CharAt(s, i) == SubSeq(s, i, i)

RECURSIVE MapChars(_, _, _)
MapChars(s, from, to) ==
    IF Len(s) = 0 THEN ""
    ELSE LET c   == CharAt(s, 1)
             hit == {i \in 1..Len(from) : CharAt(from, i) = c}
             c2  == IF hit = {} THEN c ELSE CharAt(to, CHOOSE i \in hit : TRUE)
         IN  c2 \o MapChars(SubSeq(s, 2, Len(s)), from, to)

toLowerCase(s) == MapChars(s, UpperChars, LowerChars)

toUpperCase(s) == MapChars(s, LowerChars, UpperChars)

\* String.prototype.includes
includes(s, kw) ==
    \E i \in 1..(Len(s) - Len(kw) + 1) : SubSeq(s, i, i + Len(kw) - 1) = kw

\* some(kw => s.includes(kw)) over a list of keywords
someIncluded(kws, s) == \E k \in 1..Len(kws) : includes(s, kws[k])

\* s.split(/\s+/).filter(w => w.length > 2), as the Set the code builds of it
splitWords(s) ==
    LET starts == { i \in 1..Len(s) :
                      CharAt(s, i) # " " /\ (i = 1 \/ CharAt(s, i - 1) = " ") }
        endOf(i) == CHOOSE j \in i..Len(s) :
                      /\ (j = Len(s) \/ CharAt(s, j + 1) = " ")
                      /\ \A k \in i..j : CharAt(s, k) # " "
    IN  { SubSeq(s, i, endOf(i)) : i \in { k \in starts : endOf(k) - k + 1 > 2 } }

\* String(n) for a natural number n
RECURSIVE NatToString(_)
NatToString(n) ==
    IF n < 10 THEN CharAt(Digits, n + 1)
    ELSE NatToString(n \div 10) \o CharAt(Digits, (n % 10) + 1)

\* String(grade) for a grade held in tenths: 98 is 9.8, 100 is 10
GradeToString(g) ==
    IF g % 10 = 0 THEN NatToString(g \div 10)
    ELSE NatToString(g \div 10) \o "." \o NatToString(g % 10)

RECURSIVE JoinWithSpace(_)
JoinWithSpace(parts) ==
    IF parts = <<>> THEN ""
    ELSE IF Len(parts) = 1 THEN parts[1]
    ELSE parts[1] \o " " \o JoinWithSpace(Tail(parts))

(***************************************************************************)
(* Configuration                                                           *)
(***************************************************************************)
\* 1000 * 60 * 60 * 24 milliseconds, in ticks
TicksPerDay == 2

\* metadata.grade === undefined
NoGrade == -1

\* a rolling average that is null
Null == <<>>

\* a soldDate string that new Date() cannot parse: its getTime() is NaN
InvalidDate == -1

\* days -> weight, in hundredths
TIME_DECAY_CONFIG ==
    (0 :> 100) @@ (7 :> 95) @@ (14 :> 90) @@ (30 :> 85) @@
    (60 :> 70) @@ (90 :> 55) @@ (180 :> 35) @@ (365 :> 15)

CONFIDENCE_THRESHOLDS ==
    [high   |-> [minComparables |-> 5, minAvgSimilarity |-> 70],
     medium |-> [minComparables |-> 3, minAvgSimilarity |-> 50],
     low    |-> [minComparables |-> 1, minAvgSimilarity |-> 0]]

\* grade -> multiplier, both in tenths
GRADE_MULTIPLIERS ==
    (100 :> 80) @@ (98 :> 50) @@ (96 :> 30) @@ (94 :> 20) @@ (92 :> 16) @@
    (90 :> 13) @@ (85 :> 11) @@ (80 :> 10) @@ (75 :> 8) @@ (70 :> 6) @@
    (60 :> 4) @@ (50 :> 3)

\* scoredComparables.filter(c => c.similarityScore >= 20)
RelevanceFloor == 20

\* removeOutliers returns its input when it holds fewer than this many
OutlierMinSample == 4

(***************************************************************************)
(* Condition type filtering                                                *)
(***************************************************************************)
conditionKeywords(targetCondition) ==
    CASE targetCondition = "sealed" ->
           <<"sealed", "new", "factory sealed", "brand new", "mint sealed", "new/sealed">>
      [] targetCondition = "cib" ->
           <<"cib", "complete", "complete in box", "with box", "with manual", "box and manual">>
      [] targetCondition = "loose" ->
           <<"loose", "cart only", "cartridge only", "disc only", "game only", "no box", "no manual">>
      [] OTHER -> <<>>

conditionFieldMatch(targetCondition) ==
    CASE targetCondition = "sealed" -> <<"new", "sealed", "new/sealed", "factory sealed">>
      [] targetCondition = "cib"    -> <<"cib", "complete", "very good", "good">>
      [] targetCondition = "loose"  -> <<"loose", "acceptable", "cart", "disc">>
      [] OTHER -> <<>>

\* the predicate of comparables.filter(comp => ...) in filterByConditionType
keepsComparable(comp, targetCondition) ==
    LET nameLower      == toLowerCase(comp.name)
        conditionLower == toLowerCase(comp.condition)
        conditionMatches ==
            someIncluded(conditionFieldMatch(targetCondition), conditionLower)
        nameMatches ==
            someIncluded(conditionKeywords(targetCondition), nameLower)
    IN  IF conditionLower # "" /\ conditionMatches THEN TRUE
        ELSE IF /\ conditionLower # ""
                /\ targetCondition # "sealed"
                /\ (includes(conditionLower, "sealed") \/ includes(conditionLower, "new"))
             THEN FALSE
        ELSE IF /\ conditionLower # ""
                /\ targetCondition # "loose"
                /\ includes(conditionLower, "loose")
             THEN FALSE
        ELSE IF nameMatches THEN TRUE
        ELSE IF /\ targetCondition # "sealed"
                /\ (includes(nameLower, "sealed") \/ includes(nameLower, "factory new"))
             THEN FALSE
        ELSE IF /\ targetCondition # "loose"
                /\ \/ includes(nameLower, "loose")
                   \/ includes(nameLower, "cart only")
                   \/ includes(nameLower, "disc only")
             THEN FALSE
        ELSE IF /\ targetCondition # "cib"
                /\ (includes(nameLower, "cib") \/ includes(nameLower, "complete in box"))
             THEN FALSE
        ELSE TRUE

filterByConditionType(comps, targetCondition) ==
    IF targetCondition = "" THEN comps
    ELSE SelectSeq(comps, LAMBDA comp : keepsComparable(comp, targetCondition))

(***************************************************************************)
(* Time weighting                                                          *)
(***************************************************************************)
\* Object.entries(TIME_DECAY_CONFIG) sorted by days
brackets ==
    LET days == SetToSortedSeq(DOMAIN TIME_DECAY_CONFIG)
    IN  [i \in 1..Len(days) |-> [days |-> days[i], weight |-> TIME_DECAY_CONFIG[days[i]]]]

\* Math.floor((now - soldDate) / one day)
daysDiffOf(soldDate, now) == (now - soldDate) \div TicksPerDay

\* mutant of timeWeightOfAge: an age below the first anchor is interpolated
\* from the first anchor instead of falling through to 1.0
timeWeightOfAge_noFloor(daysDiff) ==
    LET hits == {i \in 1..Len(brackets) : daysDiff >= brackets[i].days}
        i    == IF hits = {} THEN 1 ELSE CHOOSE h \in hits : \A k \in hits : k <= h
    IN  IF i < Len(brackets)
        THEN LET lower == brackets[i]
                 upper == brackets[i + 1]
                 ratio == Rat(daysDiff - lower.days, upper.days - lower.days)
             IN  RatSub(Rat(lower.weight, 100),
                        RatMul(Rat(lower.weight - upper.weight, 100), ratio))
        ELSE Rat(brackets[i].weight, 100)

\* mutant of timeWeightOfAge: a sale at or beyond the last anchor weighs nothing
timeWeightOfAge_expired(daysDiff) ==
    LET hits == {i \in 1..Len(brackets) : daysDiff >= brackets[i].days}
    IN  IF hits = {} THEN RatInt(1)
        ELSE LET i == CHOOSE h \in hits : \A k \in hits : k <= h
             IN  IF i < Len(brackets)
                 THEN LET lower == brackets[i]
                          upper == brackets[i + 1]
                          ratio == Rat(daysDiff - lower.days, upper.days - lower.days)
                      IN  RatSub(Rat(lower.weight, 100),
                                 RatMul(Rat(lower.weight - upper.weight, 100), ratio))
                 ELSE RatInt(0)

\* mutant of timeWeightOfAge: the weight of the anchor reached, no interpolation
timeWeightOfAge_stepped(daysDiff) ==
    LET hits == {i \in 1..Len(brackets) : daysDiff >= brackets[i].days}
    IN  IF hits = {} THEN RatInt(1)
        ELSE Rat(brackets[CHOOSE h \in hits : \A k \in hits : k <= h].weight, 100)

\* mutant of timeWeightOfAge: the interpolation adds where it should subtract
timeWeightOfAge_rising(daysDiff) ==
    LET hits == {i \in 1..Len(brackets) : daysDiff >= brackets[i].days}
    IN  IF hits = {} THEN RatInt(1)
        ELSE LET i == CHOOSE h \in hits : \A k \in hits : k <= h
             IN  IF i < Len(brackets)
                 THEN LET lower == brackets[i]
                          upper == brackets[i + 1]
                          ratio == Rat(daysDiff - lower.days, upper.days - lower.days)
                      IN  RatAdd(Rat(lower.weight, 100),
                                 RatMul(Rat(lower.weight - upper.weight, 100), ratio))
                 ELSE Rat(brackets[i].weight, 100)

\* the weight for an age in days: the loop of calculateTimeWeight
timeWeightOfAge(daysDiff) ==
    LET hits == {i \in 1..Len(brackets) : daysDiff >= brackets[i].days}
    IN  IF hits = {} THEN RatInt(1)
        ELSE LET i == CHOOSE h \in hits : \A k \in hits : k <= h
             IN  IF i < Len(brackets)
                 THEN LET lower == brackets[i]
                          upper == brackets[i + 1]
                          ratio == Rat(daysDiff - lower.days, upper.days - lower.days)
                      IN  RatSub(Rat(lower.weight, 100),
                                 RatMul(Rat(lower.weight - upper.weight, 100), ratio))
                 ELSE Rat(brackets[i].weight, 100)

\* for an unparsable soldDate daysDiff is NaN, every daysDiff >= brackets[i].days
\* is false and the loop falls through to return 1.0
calculateTimeWeight(soldDate, now) ==
    IF soldDate = InvalidDate THEN RatInt(1)
    ELSE timeWeightOfAge(daysDiffOf(soldDate, now))

(***************************************************************************)
(* Similarity scoring                                                      *)
(***************************************************************************)
RECURSIVE SumOver(_, _)
SumOver(f(_), S) ==
    IF S = {} THEN 0
    ELSE LET x == CHOOSE y \in S : TRUE IN f(x) + SumOver(f, S \ {x})

\* what one target word adds to matchCount, in halves
wordMatchHalves(word, compWords) ==
    IF word \in compWords THEN 2
    ELSE IF \E compWord \in compWords :
               includes(compWord, word) \/ includes(word, compWord)
         THEN 1
         ELSE 0

scoreNameSimilarity(compName, targetName) ==
    LET compWords   == splitWords(compName)
        targetWords == splitWords(targetName)
        matchHalves == SumOver(LAMBDA w : wordMatchHalves(w, compWords), targetWords)
    IN  IF Cardinality(targetWords) = 0 THEN RatInt(0)
        ELSE Rat(matchHalves, 2 * Cardinality(targetWords))

conditionMap(conditionType) ==
    CASE conditionType = "sealed" -> <<"sealed", "new", "factory", "wata", "vga">>
      [] conditionType = "cib"    -> <<"cib", "complete", "box">>
      [] conditionType = "loose"  -> <<"loose", "cart", "disc only", "cartridge">>
      [] OTHER -> <<>>

regionKeywords(region) ==
    CASE region = "NTSC"   -> <<"ntsc", "usa", "us version">>
      [] region = "PAL"    -> <<"pal", "europe", "uk", "eu">>
      [] region = "NTSC-J" -> <<"ntsc-j", "japan", "jp", "japanese">>
      [] OTHER -> <<>>

\* the points of each factor, in halves
platformPoints(compName, target) ==
    IF target.platform # "" /\ includes(compName, toLowerCase(target.platform))
    THEN 6 ELSE 0

conditionPoints(compName, compCondition, target) ==
    IF /\ target.conditionType # ""
       /\ \E k \in 1..Len(conditionMap(target.conditionType)) :
             \/ includes(compName, conditionMap(target.conditionType)[k])
             \/ includes(compCondition, conditionMap(target.conditionType)[k])
    THEN 4 ELSE 0

gradingPoints(compName, compCondition, target) ==
    IF /\ target.gradingCompany # ""
       /\ target.gradingCompany # "raw"
       /\ \/ includes(compName, toLowerCase(target.gradingCompany))
          \/ includes(compCondition, toLowerCase(target.gradingCompany))
    THEN 3 + (IF /\ target.grade # NoGrade
                 /\ target.grade # 0
                 /\ \/ includes(compName, GradeToString(target.grade))
                    \/ includes(compCondition, GradeToString(target.grade))
              THEN 1 ELSE 0)
    ELSE 0

regionPoints(compName, target) ==
    IF target.region # "" /\ someIncluded(regionKeywords(target.region), compName)
    THEN 2 ELSE 0

\* mutant of attributeFactors: the grading company adds no factors
attributeFactors_noGrading(target) ==
    (IF target.platform # "" THEN 3 ELSE 0)
    + (IF target.conditionType # "" THEN 2 ELSE 0)
    + (IF target.region # "" THEN 1 ELSE 0)

\* factors: 3 for a platform, 2 for a condition type, 2 for a grading company, 1 for a region
attributeFactors(target) ==
    (IF target.platform # "" THEN 3 ELSE 0)
    + (IF target.conditionType # "" THEN 2 ELSE 0)
    + (IF target.gradingCompany # "" /\ target.gradingCompany # "raw" THEN 2 ELSE 0)
    + (IF target.region # "" THEN 1 ELSE 0)

scoreVideoGameAttributes(comparable, target) ==
    LET compName      == toLowerCase(comparable.name)
        compCondition == toLowerCase(comparable.condition)
        scoreHalves   == platformPoints(compName, target)
                         + conditionPoints(compName, compCondition, target)
                         + gradingPoints(compName, compCondition, target)
                         + regionPoints(compName, target)
        factors       == attributeFactors(target)
    IN  IF factors > 0 THEN Rat(scoreHalves, 2 * factors) ELSE Rat(1, 2)

\* Math.round((similarityScore / maxScore) * 100) with maxScore = 40 + 60
normalizedScoreOf(comparable, target) ==
    LET similarityScore ==
            RatAdd(RatMul(scoreNameSimilarity(toLowerCase(comparable.name),
                                              toLowerCase(target.name)), RatInt(40)),
                   RatMul(scoreVideoGameAttributes(comparable, target), RatInt(60)))
        maxScore == 40 + 60
    IN  MathRound(RatMul(RatDiv(similarityScore, RatInt(maxScore)), RatInt(100)))

scoreComparable(comparable, target, now) ==
    LET normalizedScore == normalizedScoreOf(comparable, target)
        timeWeight      == calculateTimeWeight(comparable.soldDate, now)
    IN  [name            |-> comparable.name,
         condition       |-> comparable.condition,
         soldPrice       |-> comparable.soldPrice,
         soldDate        |-> comparable.soldDate,
         similarityScore |-> normalizedScore,
         timeWeight      |-> timeWeight,
         finalWeight     |-> RatMul(Rat(normalizedScore, 100), timeWeight),
         adjustedPrice   |-> comparable.soldPrice]

(***************************************************************************)
(* Statistical analysis                                                    *)
(***************************************************************************)
pricesOf(comps) == [i \in 1..Len(comps) |-> comps[i].adjustedPrice]

\* prices.reduce((a, b) => a + b, 0) / prices.length
meanOf(prices) == RatDiv(RatSum(prices), RatInt(Len(prices)))

\* the square of stdDev: sum of (p - mean)^2, over prices.length
varianceOf(prices) ==
    LET mean == meanOf(prices)
    IN  RatDiv(RatSum([i \in 1..Len(prices) |->
                          RatMul(RatSub(prices[i], mean), RatSub(prices[i], mean))]),
               RatInt(Len(prices)))

\* mutant of withinBounds: > and < in place of >= and <=
withinBounds_strict(price, prices) ==
    LET mean == meanOf(prices)
        d    == RatSub(price, mean)
    IN  RatLess(RatMul(d, d), RatMul(RatInt(4), varianceOf(prices)))

\* mutant of withinBounds: the upper bound is exclusive
withinBounds_halfOpen(price, prices) ==
    LET mean == meanOf(prices)
        d    == RatSub(price, mean)
    IN  /\ RatLeq(RatMul(d, d), RatMul(RatInt(4), varianceOf(prices)))
        /\ \/ RatLess(d, RatInt(0))
           \/ RatLess(RatMul(d, d), RatMul(RatInt(4), varianceOf(prices)))

\* mutant of withinBounds: one standard deviation in place of two
withinBounds_oneSigma(price, prices) ==
    LET mean == meanOf(prices)
        d    == RatSub(price, mean)
    IN  RatLeq(RatMul(d, d), varianceOf(prices))

\* c.adjustedPrice >= mean - 2 * stdDev && c.adjustedPrice <= mean + 2 * stdDev:
\* a distance d >= 0 is at most 2 * stdDev iff d * d <= 4 * stdDev^2
withinBounds(price, prices) ==
    LET mean == meanOf(prices)
        d    == RatSub(price, mean)
    IN  RatLeq(RatMul(d, d), RatMul(RatInt(4), varianceOf(prices)))

removeOutliers(comps) ==
    IF Len(comps) < OutlierMinSample THEN comps
    ELSE SelectSeq(comps, LAMBDA c : withinBounds(c.adjustedPrice, pricesOf(comps)))

\* mutant of filterByDays: the sales before the cutoff are the ones kept
filterByDays_older(comps, days, now) ==
    SelectSeq(comps, LAMBDA c : /\ c.soldDate # InvalidDate
                                /\ c.soldDate <= now - days * TicksPerDay)

\* comparables.filter(c => new Date(c.soldDate) >= cutoff)
filterByDays(comps, days, now) ==
    SelectSeq(comps, LAMBDA c : /\ c.soldDate # InvalidDate
                                /\ c.soldDate >= now - days * TicksPerDay)

totalWeightOf(items) == RatSum([i \in 1..Len(items) |-> items[i].finalWeight])

weightedPriceSum(items) ==
    RatSum([i \in 1..Len(items) |-> RatMul(items[i].adjustedPrice, items[i].finalWeight)])

\* mutant of calcWeightedAvg: the plain mean of the prices
calcWeightedAvg_plainMean(items) ==
    IF Len(items) = 0 THEN Null
    ELSE IF totalWeightOf(items) = RatInt(0) THEN Null
    ELSE meanOf(pricesOf(items))

calcWeightedAvg(items) ==
    IF Len(items) = 0 THEN Null
    ELSE IF totalWeightOf(items) = RatInt(0) THEN Null
    ELSE RatDiv(weightedPriceSum(items), totalWeightOf(items))

calculateRollingAverages(comps, now) ==
    [days30  |-> calcWeightedAvg(filterByDays(comps, 30, now)),
     days90  |-> calcWeightedAvg(filterByDays(comps, 90, now)),
     days180 |-> calcWeightedAvg(filterByDays(comps, 180, now))]

\* mutant of getGradeMultiplier: the thresholds are scanned in ascending order
getGradeMultiplier_ascending(grade) ==
    LET grades == SetToSortedSeq(DOMAIN GRADE_MULTIPLIERS)
        hits   == {i \in 1..Len(grades) : grade >= grades[i]}
    IN  IF hits = {} THEN GRADE_MULTIPLIERS[50]
        ELSE GRADE_MULTIPLIERS[grades[CHOOSE h \in hits : \A k \in hits : h <= k]]

getGradeMultiplier(grade) ==
    LET grades == Reverse(SetToSortedSeq(DOMAIN GRADE_MULTIPLIERS))
        hits   == {i \in 1..Len(grades) : grade >= grades[i]}
    IN  IF hits = {} THEN GRADE_MULTIPLIERS[50]
        ELSE GRADE_MULTIPLIERS[grades[CHOOSE h \in hits : \A k \in hits : h <= k]]

\* mutant of baseWeightedAverage: the weighted sum is divided by the count
baseWeightedAverage_overCount(comps) ==
    IF RatLess(RatInt(0), totalWeightOf(comps))
    THEN RatDiv(weightedPriceSum(comps), RatInt(Len(comps)))
    ELSE meanOf(pricesOf(comps))

\* mutant of baseWeightedAverage: the weights are the similarities alone
baseWeightedAverage_bySimilarity(comps) ==
    LET sims == [i \in 1..Len(comps) |-> RatInt(comps[i].similarityScore)]
        sum  == RatSum([i \in 1..Len(comps) |-> RatMul(comps[i].adjustedPrice, sims[i])])
    IN  IF RatLess(RatInt(0), RatSum(sims))
        THEN RatDiv(sum, RatSum(sims))
        ELSE meanOf(pricesOf(comps))

\* the weighted average before any grade adjustment
baseWeightedAverage(comps) ==
    IF RatLess(RatInt(0), totalWeightOf(comps))
    THEN RatDiv(weightedPriceSum(comps), totalWeightOf(comps))
    ELSE meanOf(pricesOf(comps))

\* mutant of gradeAdjusts: a raw target is adjusted like a graded one
gradeAdjusts_rawIncluded(meta) ==
    /\ meta.grade # NoGrade
    /\ meta.gradingCompany # ""
    /\ getGradeMultiplier(meta.grade) # getGradeMultiplier(85)

\* whether the grade adjustment applies, and its factor
gradeAdjusts(meta) ==
    /\ meta.grade # NoGrade
    /\ meta.gradingCompany # ""
    /\ meta.gradingCompany # "raw"
    /\ getGradeMultiplier(meta.grade) # getGradeMultiplier(85)

gradeAdjustment(meta) == Rat(getGradeMultiplier(meta.grade), getGradeMultiplier(85))

calculateWeightedAverage(comps, meta) ==
    IF gradeAdjusts(meta)
    THEN [weightedAverage |-> RatMul(baseWeightedAverage(comps), gradeAdjustment(meta)),
          adjustments     |-> << [type   |-> "grade",
                                  factor |-> gradeAdjustment(meta),
                                  reason |-> "Adjusted for " \o meta.gradingCompany \o " "
                                             \o GradeToString(meta.grade) \o " grade"] >>]
    ELSE [weightedAverage |-> baseWeightedAverage(comps),
          adjustments     |-> <<>>]

RECURSIVE sortAscending(_)
sortAscending(prices) ==
    IF prices = <<>> THEN <<>>
    ELSE LET i == CHOOSE k \in 1..Len(prices) :
                     \A j \in 1..Len(prices) : RatLeq(prices[k], prices[j])
         IN  <<prices[i]>> \o
             sortAscending(SubSeq(prices, 1, i - 1) \o SubSeq(prices, i + 1, Len(prices)))

\* mutant of percentileIndex: floor(p / 100 * n) in place of ceil(...) - 1
percentileIndex_floor(n, p) ==
    LET index == (p * n) \div 100
    IN  MathMax(0, MathMin(index, n - 1)) + 1

\* the index percentile reads, counted from 1
percentileIndex(n, p) ==
    LET index == MathCeil(Rat(p * n, 100)) - 1
    IN  MathMax(0, MathMin(index, n - 1)) + 1

percentile(arr, p) == arr[percentileIndex(Len(arr), p)]

\* mutant of calculatePriceRange: the prices are not sorted
calculatePriceRange_unsorted(comps) ==
    LET prices == pricesOf(comps)
    IN  [low    |-> MathRound(percentile(prices, 25)),
         median |-> MathRound(percentile(prices, 50)),
         high   |-> MathRound(percentile(prices, 75))]

calculatePriceRange(comps) ==
    LET prices == sortAscending(pricesOf(comps))
    IN  [low    |-> MathRound(percentile(prices, 25)),
         median |-> MathRound(percentile(prices, 50)),
         high   |-> MathRound(percentile(prices, 75))]

(***************************************************************************)
(* Confidence                                                              *)
(***************************************************************************)
avgSimilarityOf(comps) ==
    Rat(SumOver(LAMBDA i : comps[i].similarityScore, 1..Len(comps)), Len(comps))

avgTimeWeightOf(comps) ==
    RatDiv(RatSum([i \in 1..Len(comps) |-> comps[i].timeWeight]), RatInt(Len(comps)))

\* mutant of confidenceTier: the average similarity is not looked at
confidenceTier_countOnly(count, avgSimilarity) ==
    IF count >= CONFIDENCE_THRESHOLDS.high.minComparables THEN "high"
    ELSE IF count >= CONFIDENCE_THRESHOLDS.medium.minComparables THEN "medium"
    ELSE "low"

\* mutant of confidenceTier: count > minComparables in place of >=
confidenceTier_strictCount(count, avgSimilarity) ==
    IF /\ count > CONFIDENCE_THRESHOLDS.high.minComparables
       /\ RatLeq(RatInt(CONFIDENCE_THRESHOLDS.high.minAvgSimilarity), avgSimilarity)
    THEN "high"
    ELSE IF /\ count > CONFIDENCE_THRESHOLDS.medium.minComparables
            /\ RatLeq(RatInt(CONFIDENCE_THRESHOLDS.medium.minAvgSimilarity), avgSimilarity)
         THEN "medium"
         ELSE "low"

confidenceTier(count, avgSimilarity) ==
    IF /\ count >= CONFIDENCE_THRESHOLDS.high.minComparables
       /\ RatLeq(RatInt(CONFIDENCE_THRESHOLDS.high.minAvgSimilarity), avgSimilarity)
    THEN "high"
    ELSE IF /\ count >= CONFIDENCE_THRESHOLDS.medium.minComparables
            /\ RatLeq(RatInt(CONFIDENCE_THRESHOLDS.medium.minAvgSimilarity), avgSimilarity)
         THEN "medium"
         ELSE "low"

\* mutant of calculateConfidence: count * 8 is not capped at 40
calculateConfidence_uncapped(comps, totalFound) ==
    LET avgSimilarity == avgSimilarityOf(comps)
        count         == Len(comps)
        confidenceScore ==
            RatAdd(RatAdd(RatInt(count * 8),
                          RatMul(RatDiv(avgSimilarity, RatInt(100)), RatInt(40))),
                   RatMul(avgTimeWeightOf(comps), RatInt(20)))
    IN  [confidence      |-> confidenceTier(count, avgSimilarity),
         confidenceScore |-> MathRound(confidenceScore)]

calculateConfidence(comps, totalFound) ==
    LET avgSimilarity == avgSimilarityOf(comps)
        count         == Len(comps)
        confidenceScore ==
            RatAdd(RatAdd(RatInt(MathMin(count * 8, 40)),
                          RatMul(RatDiv(avgSimilarity, RatInt(100)), RatInt(40))),
                   RatMul(avgTimeWeightOf(comps), RatInt(20)))
    IN  [confidence      |-> confidenceTier(count, avgSimilarity),
         confidenceScore |-> MathRound(confidenceScore)]

(***************************************************************************)
(* Helpers                                                                 *)
(***************************************************************************)
buildMethodology(usedCount, totalCount, adjustments, conditionType) ==
    JoinWithSpace(
        << IF conditionType # ""
           THEN "Based on " \o NatToString(usedCount) \o " "
                \o toUpperCase(conditionType) \o " sales"
           ELSE "Based on " \o NatToString(usedCount) \o " comparable sales" >>
        \o (IF totalCount > usedCount
            THEN << "(" \o NatToString(totalCount - usedCount) \o " outliers excluded)" >>
            ELSE <<>>)
        \o (IF Len(adjustments) > 0
            THEN << "with " \o adjustments[1].type \o " adjustments applied" >>
            ELSE <<>>)
        \o << "using time-weighted rolling average" >>)

\* mutant of createEmptyResult: the reason passed in is dropped
createEmptyResult_fixedReason(reason) ==
    [estimatedValue  |-> 0,
     confidence      |-> "low",
     confidenceScore |-> 0,
     priceRange      |-> [low |-> 0, median |-> 0, high |-> 0],
     rollingAverage  |-> [days30 |-> Null, days90 |-> Null, days180 |-> Null],
     comparablesUsed |-> 0,
     adjustments     |-> <<>>,
     methodology     |-> "No comparable sales data available"]

createEmptyResult(reason) ==
    [estimatedValue  |-> 0,
     confidence      |-> "low",
     confidenceScore |-> 0,
     priceRange      |-> [low |-> 0, median |-> 0, high |-> 0],
     rollingAverage  |-> [days30 |-> Null, days90 |-> Null, days180 |-> Null],
     comparablesUsed |-> 0,
     adjustments     |-> <<>>,
     methodology     |-> reason]

\* the reasons calculateValuation gives createEmptyResult
noDataReason == "No comparable sales data available"

noConditionReason(conditionType) ==
    "No " \o (IF conditionType # "" THEN toUpperCase(conditionType) ELSE "matching")
    \o " condition sales found"

noSimilarReason == "No sufficiently similar comparables found"

\* steps 5 to 8 and the return of calculateValuation
successResult(meta, filtered, relevant, kept, rolling) ==
    LET wa == calculateWeightedAverage(kept, meta)
        cf == calculateConfidence(kept, Len(relevant))
    IN  [estimatedValue  |-> MathRound(wa.weightedAverage),
         confidence      |-> cf.confidence,
         confidenceScore |-> cf.confidenceScore,
         priceRange      |-> calculatePriceRange(kept),
         rollingAverage  |-> rolling,
         comparablesUsed |-> Len(kept),
         adjustments     |-> wa.adjustments,
         methodology     |-> buildMethodology(Len(kept), Len(filtered),
                                              wa.adjustments, meta.conditionType)]

\* calculateValuation as a function of its arguments and of what new Date()
\* returned: nows[i] while scoring the i-th filtered comparable, nowRolling
\* inside calculateRollingAverages
calculateValuation(meta, comps, nows, nowRolling) ==
    IF Len(comps) = 0 THEN createEmptyResult(noDataReason)
    ELSE LET filtered == filterByConditionType(comps, meta.conditionType)
             scored   == [i \in 1..Len(filtered) |->
                             scoreComparable(filtered[i], meta, nows[i])]
             relevant == SelectSeq(scored, LAMBDA c : c.similarityScore >= RelevanceFloor)
             kept     == removeOutliers(relevant)
         IN  IF Len(filtered) = 0
             THEN createEmptyResult(noConditionReason(meta.conditionType))
             ELSE IF Len(relevant) = 0
             THEN createEmptyResult(noSimilarReason)
             ELSE successResult(meta, filtered, relevant, kept,
                                calculateRollingAverages(kept, nowRolling))

(***************************************************************************)
(* Inputs                                                                  *)
(***************************************************************************)
\* the longest list of priced comparables
MaxComps == 6

\* the longest list of comparables that differ in their texts
MaxTexts == 2

\* how many times the clock advances during one call
MaxTicks == 1

\* the day of the call; calculateValuation is called on its last tick
Today == 400

StartClock == Today * TicksPerDay + (TicksPerDay - 1)

\* midnight of the day `age` days before Today
dateOfAge(age) == (Today - age) * TicksPerDay

Target(platform, conditionType, gradingCompany, grade, region) ==
    [name           |-> "Super Mario Bros",
     platform       |-> platform,
     region         |-> region,
     conditionType  |-> conditionType,
     gradingCompany |-> gradingCompany,
     grade          |-> grade]

CibTarget == Target("NES", "cib", "", NoGrade, "")

LooseTarget == Target("NES", "loose", "", NoGrade, "")

SealedTarget == Target("NES", "sealed", "WATA", 98, "NTSC")

PlainTarget == Target("", "", "", NoGrade, "")

Targets == {CibTarget, LooseTarget, SealedTarget}

Listing(name, condition, price, age) ==
    [name |-> name, condition |-> condition, soldPrice |-> price,
     soldDate |-> dateOfAge(age)]

\* name and condition label of a listing: the labels PriceCharting gives
\* (CIB, Loose, New/Sealed), eBay's (Good, Acceptable, New) and free text
ListingTexts ==
    { <<"Super Mario Bros NES (CIB)", "CIB">>,
      <<"Super Mario Bros NES (Loose)", "Loose">>,
      <<"Super Mario Bros NES (New/Sealed)", "New/Sealed">>,
      <<"Super Mario Bros NES WATA 9.8 USA", "Brand New Sealed Cartridge">>,
      <<"Super Mario Bros NES", "Loose - Good">>,
      <<"SUPER MARIO BROS NES Cart Only", "">>,
      <<"Tetris Game Boy", "">> }

TextInputs ==
    { [i \in 1..Len(t) |-> Listing(t[i][1], t[i][2], RatInt(10 + i), 0)] :
        t \in UNION { [1..k -> ListingTexts] : k \in 1..MaxTexts } }

\* complete-in-box sales of the target: a tight cluster at 1 and 1.1, a sale
\* at 100 times the cluster's price, and a poorly matching one below half a unit
PricedListings ==
    << Listing("Super Mario Bros NES (CIB)", "CIB", RatInt(1), 0),
       Listing("Super Mario NES complete", "Very Good", Rat(11, 10), 3),
       Listing("Super Mario Bros NES (CIB)", "CIB", RatInt(100), 7),
       Listing("Mario (CIB)", "CIB", Rat(2, 5), 1) >>

\* the lists of priced listings, each in the order of PricedListings
PricedInputs ==
    { [i \in 1..Len(s) |-> PricedListings[s[i]]] :
        s \in { q \in UNION { [1..n -> 1..Len(PricedListings)] : n \in 0..MaxComps } :
                  \A i \in 1..(Len(q) - 1) : q[i] <= q[i + 1] } }

NoResult == [pending |-> TRUE]

NoRolling == [days30 |-> Null, days90 |-> Null, days180 |-> Null]

(***************************************************************************)
(* The state machine: one call of calculateValuation                       *)
(***************************************************************************)
\* the hook is not in use while a valuation is computed
GamesIdle ==
    /\ games = <<>>
    /\ localStorage = <<>>
    /\ loading = FALSE
    /\ gamesTable = <<>>
    /\ requests = {}
    /\ responses = {}
    /\ nextLocalId = 0
    /\ nextUuid = 0
    /\ calls = 0

InitCall(meta, comps) ==
    /\ GamesIdle
    /\ metadata = meta
    /\ comparables = comps
    /\ clock = StartClock
    /\ startClock = StartClock
    /\ pc = "start"
    /\ conditionFilteredComparables = <<>>
    /\ scoredComparables = <<>>
    /\ relevantComparables = <<>>
    /\ withoutOutliers = <<>>
    /\ rollingAverages = NoRolling
    /\ result = NoResult

\* a complete-in-box sale of the target and a sale of another game whose
\* label passes the filter for a complete-in-box target
MixedListings ==
    << Listing("Super Mario Bros NES (CIB)", "CIB", RatInt(1), 0),
       Listing("Tetris Game Boy", "Good", RatInt(100), 0) >>

\* sales of the target followed by sales of the other game
MixedInputs ==
    { [i \in 1..(k + m) |-> IF i <= k THEN MixedListings[1] ELSE MixedListings[2]] :
        k \in 0..MaxComps, m \in 1..MaxComps }

Init ==
    \/ \E meta \in Targets, comps \in TextInputs : InitCall(meta, comps)
    \/ \E comps \in {c \in TextInputs : Len(c) = 1} : InitCall(PlainTarget, comps)
    \/ \E comps \in PricedInputs : InitCall(CibTarget, comps)
    \/ \E comps \in {c \in MixedInputs : Len(c) <= MaxComps} : InitCall(CibTarget, comps)

\* if (comparables.length === 0) return createEmptyResult(...)
CheckEmpty ==
    /\ pc = "start"
    /\ IF Len(comparables) = 0
       THEN /\ result' = createEmptyResult(noDataReason)
            /\ pc' = "done"
       ELSE /\ pc' = "filter"
            /\ UNCHANGED result
    /\ UNCHANGED gamesVars
    /\ UNCHANGED <<metadata, comparables, clock, startClock,
                   conditionFilteredComparables, scoredComparables,
                   relevantComparables, withoutOutliers, rollingAverages>>

\* step 0: filterByConditionType, and the empty result when it keeps nothing
FilterStep ==
    /\ pc = "filter"
    /\ conditionFilteredComparables' =
           filterByConditionType(comparables, metadata.conditionType)
    /\ IF Len(conditionFilteredComparables') = 0
       THEN /\ result' = createEmptyResult(noConditionReason(metadata.conditionType))
            /\ pc' = "done"
       ELSE /\ pc' = "score"
            /\ UNCHANGED result
    /\ UNCHANGED gamesVars
    /\ UNCHANGED <<metadata, comparables, clock, startClock, scoredComparables,
                   relevantComparables, withoutOutliers, rollingAverages>>

\* step 1: one call of scoreComparable by map; it reads the clock
ScoreStep ==
    /\ pc = "score"
    /\ Len(scoredComparables) < Len(conditionFilteredComparables)
    /\ scoredComparables' =
           Append(scoredComparables,
                  scoreComparable(conditionFilteredComparables[Len(scoredComparables) + 1],
                                  metadata, clock))
    /\ UNCHANGED gamesVars
    /\ UNCHANGED <<metadata, comparables, clock, startClock, pc,
                   conditionFilteredComparables, relevantComparables,
                   withoutOutliers, rollingAverages, result>>

\* step 2: the relevance floor, and the empty result when nothing passes it
RelevanceStep ==
    /\ pc = "score"
    /\ Len(scoredComparables) = Len(conditionFilteredComparables)
    /\ relevantComparables' =
           SelectSeq(scoredComparables, LAMBDA c : c.similarityScore >= RelevanceFloor)
    /\ IF Len(relevantComparables') = 0
       THEN /\ result' = createEmptyResult(noSimilarReason)
            /\ pc' = "done"
       ELSE /\ pc' = "outliers"
            /\ UNCHANGED result
    /\ UNCHANGED gamesVars
    /\ UNCHANGED <<metadata, comparables, clock, startClock,
                   conditionFilteredComparables, scoredComparables,
                   withoutOutliers, rollingAverages>>

\* mutant of OutlierStep: removeOutliers is given the scored comparables, not
\* the relevant ones
OutlierStep_overScored ==
    /\ pc = "outliers"
    /\ withoutOutliers' = removeOutliers(scoredComparables)
    /\ pc' = "rolling"
    /\ UNCHANGED gamesVars
    /\ UNCHANGED <<metadata, comparables, clock, startClock,
                   conditionFilteredComparables, scoredComparables,
                   relevantComparables, rollingAverages, result>>

\* step 3: removeOutliers
OutlierStep ==
    /\ pc = "outliers"
    /\ withoutOutliers' = removeOutliers(relevantComparables)
    /\ pc' = "rolling"
    /\ UNCHANGED gamesVars
    /\ UNCHANGED <<metadata, comparables, clock, startClock,
                   conditionFilteredComparables, scoredComparables,
                   relevantComparables, rollingAverages, result>>

\* step 4: calculateRollingAverages; it reads the clock
RollingStep ==
    /\ pc = "rolling"
    /\ rollingAverages' = calculateRollingAverages(withoutOutliers, clock)
    /\ pc' = "aggregate"
    /\ UNCHANGED gamesVars
    /\ UNCHANGED <<metadata, comparables, clock, startClock,
                   conditionFilteredComparables, scoredComparables,
                   relevantComparables, withoutOutliers, result>>

\* steps 5 to 8: weighted average, price range, confidence, methodology; return
AggregateStep ==
    /\ pc = "aggregate"
    /\ result' = successResult(metadata, conditionFilteredComparables,
                               relevantComparables, withoutOutliers, rollingAverages)
    /\ pc' = "done"
    /\ UNCHANGED gamesVars
    /\ UNCHANGED <<metadata, comparables, clock, startClock,
                   conditionFilteredComparables, scoredComparables,
                   relevantComparables, withoutOutliers, rollingAverages>>

\* time passes while calculateValuation runs
Tick ==
    /\ pc # "done"
    /\ clock < startClock + MaxTicks
    /\ clock' = clock + 1
    /\ UNCHANGED gamesVars
    /\ UNCHANGED <<metadata, comparables, startClock, pc,
                   conditionFilteredComparables, scoredComparables,
                   relevantComparables, withoutOutliers, rollingAverages, result>>

Next ==
    \/ CheckEmpty
    \/ FilterStep
    \/ ScoreStep
    \/ RelevanceStep
    \/ OutlierStep
    \/ RollingStep
    \/ AggregateStep
    \/ Tick

Spec == Init /\ [][Next]_vars

(***************************************************************************)
(* Scoring over every shape of target metadata: one comparable per call    *)
(***************************************************************************)
ScoreTargets ==
    { [name |-> n, platform |-> p, region |-> r, conditionType |-> c,
       gradingCompany |-> g, grade |-> gr] :
        n \in {"Super Mario Bros", ""}, p \in {"", "NES"},
        r \in {"", "NTSC", "Other"}, c \in {"", "sealed", "cib", "loose"},
        g \in {"", "raw", "WATA"}, gr \in {NoGrade, 0, 85, 98} }

ScoreTexts ==
    { <<"Super Mario Bros NES WATA 9.8 USA", "Brand New Sealed Cartridge">>,
      <<"Super Mario Bros NES (CIB)", "CIB">>,
      <<"Supermario loose cart", "">>,
      <<"Tetris Game Boy", "">> }

InitScore ==
    \E meta \in ScoreTargets, t \in ScoreTexts :
        InitCall(meta, << Listing(t[1], t[2], RatInt(10), 0) >>)

SpecScore == InitScore /\ [][Next]_vars

(***************************************************************************)
(* Time weighting over every age: one comparable per call                  *)
(***************************************************************************)
\* the oldest sale, in days before Today
MaxAge == 400

\* the latest sale, in days after Today
MaxFuture == 3

\* how many days apart the two sales of a pair are, at most
MaxGap == 2

\* a complete-in-box sale of the target, `age` days before Today
DatedListing(price, age) ==
    Listing("Super Mario Bros NES (CIB)", "CIB", RatInt(price), age)

\* the same sale with a soldDate that cannot be parsed
UndatedListing(price) ==
    [DatedListing(price, 0) EXCEPT !.soldDate = InvalidDate]

\* one sale of any age; two sales, the second the older one; lists that hold
\* a sale without a parsable date
InitTime ==
    \/ \E age \in (-MaxFuture)..MaxAge :
          InitCall(CibTarget, << DatedListing(10, age) >>)
    \/ \E age \in (-MaxFuture)..MaxAge, gap \in 1..MaxGap :
          /\ age + gap <= MaxAge
          /\ InitCall(CibTarget, << DatedListing(10, age), DatedListing(20, age + gap) >>)
    \/ \E comps \in { << UndatedListing(30) >>,
                      << DatedListing(10, 0), UndatedListing(30) >>,
                      << UndatedListing(30), DatedListing(10, 40) >> } :
          InitCall(CibTarget, comps)

SpecTime == InitTime /\ [][Next]_vars

(***************************************************************************)
(* Grade adjustment over every grade: one comparable per call              *)
(***************************************************************************)
\* the highest grade of a target, in tenths
MaxGrade == 105

InitGrade ==
    \E grade \in 0..MaxGrade :
        InitCall(Target("NES", "cib", "WATA", grade, ""), << DatedListing(11, 0) >>)

SpecGrade == InitGrade /\ [][Next]_vars

(***************************************************************************)
(* Condition filtering over names and labels: one comparable per call      *)
(***************************************************************************)
\* listing titles, with and without the keywords of each bucket
FilterNames ==
    { "Super Mario Bros NES",
      "Super Mario Bros NES (CIB)",
      "Super Mario Bros NES (Loose)",
      "Super Mario Bros NES complete with box",
      "Super Mario Bros NES game only",
      "SUPER MARIO BROS NES Cart Only",
      "Super Mario Bros NES brand new",
      "Super Mario Bros NES factory sealed" }

\* condition labels: absent, PriceCharting's, eBay's and free text
FilterLabels ==
    { "", "CIB", "Complete", "Loose", "New/Sealed", "Brand New",
      "Good", "Acceptable", "Used", "Loose - Good" }

InitFilter ==
    \E meta \in Targets, name \in FilterNames, label \in FilterLabels :
        InitCall(meta, << Listing(name, label, RatInt(10), 0) >>)

SpecFilter == InitFilter /\ [][Next]_vars

(***************************************************************************)
(* calculateWeightedAverage applied to scored comparables of any weight    *)
(***************************************************************************)
\* the longest list calculateWeightedAverage is applied to
MaxAveraged == 2

\* sales of the target and of another game, recent and old, at two prices
AveragedListings ==
    { Listing(t[1], t[2], RatInt(price), age) :
        t \in { <<"Super Mario Bros NES (CIB)", "CIB">>, <<"Tetris Game Boy", "">> },
        price \in {10, 20}, age \in {0, 7, MaxAge} }

\* the argument of calculateWeightedAverage: comparables as scoreComparable
\* returns them, whatever their similarity
InitAverage ==
    \E meta \in {CibTarget, Target("NES", "cib", "WATA", 98, "")},
       comps \in UNION { [1..n -> AveragedListings] : n \in 1..MaxAveraged } :
        /\ GamesIdle
        /\ metadata = meta
        /\ comparables = comps
        /\ clock = StartClock
        /\ startClock = StartClock
        /\ pc = "average"
        /\ conditionFilteredComparables = comps
        /\ scoredComparables = [i \in 1..Len(comps) |-> scoreComparable(comps[i], meta, StartClock)]
        /\ relevantComparables = scoredComparables
        /\ withoutOutliers = scoredComparables
        /\ rollingAverages = NoRolling
        /\ result = NoResult

\* one call of calculateWeightedAverage; result holds what it returns
AverageStep ==
    /\ pc = "average"
    /\ result' = calculateWeightedAverage(withoutOutliers, metadata)
    /\ pc' = "averaged"
    /\ UNCHANGED gamesVars
    /\ UNCHANGED <<metadata, comparables, clock, startClock,
                   conditionFilteredComparables, scoredComparables,
                   relevantComparables, withoutOutliers, rollingAverages>>

NextAverage == AverageStep

SpecAverage == InitAverage /\ [][NextAverage]_vars

(***************************************************************************)
(* useGames: the games of one user, kept locally and in the cloud table    *)
(*                                                                         *)
(* Cloud sync is configured and every cloud request succeeds, so the       *)
(* error branches of the hook are never taken and error stays null.  An    *)
(* asset is modelled by its id, its name and its imageUrl; a row by the    *)
(* same columns.  Requests are served by the cloud in any order.           *)
(***************************************************************************)
MaxCalls == 3

\* the id addGame gives a new game: `local-${Date.now()}`
LocalId(n) == <<"local", n>>

\* the id the cloud generates for an inserted row
Uuid(n) == <<"uuid", n>>

\* the id of an asset that has not been added yet
NoId == <<"none", 0>>

Asset(id, name, imageUrl) == [id |-> id, name |-> name, imageUrl |-> imageUrl]

DbRow(id, name, image_url) == [id |-> id, name |-> name, image_url |-> image_url]

\* a null image_url is the empty string
dbRowToAsset(row) ==
    Asset(row.id, row.name,
          IF row.image_url = "" THEN "/placeholder.svg" ELSE row.image_url)

\* the row of an asset: it has no id column
assetToDbRow(asset) == [name |-> asset.name, image_url |-> asset.imageUrl]

NoRow == [name |-> "", image_url |-> ""]

\* the assets the pages hand to addGame and updateGame
AssetInputs ==
    { Asset(NoId, "Tetris", "tetris.png"),
      Asset(NoId, "Zelda", "/placeholder.svg") }

MapSeq(f(_), list) == [i \in 1..Len(list) |-> f(list[i])]

Request(kind, id, row) == [kind |-> kind, id |-> id, row |-> row]

Response(kind, id, data) == [kind |-> kind, id |-> id, data |-> data]

\* the games state and localStorage after setGames with saveToStorage
SetAndSave(updated) ==
    /\ games' = updated
    /\ localStorage' = updated

\* no request is under way
Quiescent == requests = {} /\ responses = {}

\* a refreshGames is under way
Refreshing ==
    \/ \E req \in requests : req.kind = "select"
    \/ \E resp \in responses : resp.kind = "select"

\* the hook after its initial fetch: the games of the cloud table
InitGames ==
    \E rows \in { <<>>, << DbRow(Uuid(0), "Tetris", "tetris.png") >> } :
        /\ gamesTable = rows
        /\ games = MapSeq(dbRowToAsset, rows)
        /\ localStorage = MapSeq(dbRowToAsset, rows)
        /\ loading = FALSE
        /\ requests = {}
        /\ responses = {}
        /\ nextLocalId = 0
        /\ nextUuid = 1
        /\ calls = 0
        /\ metadata = CibTarget
        /\ comparables = <<>>
        /\ clock = StartClock
        /\ startClock = StartClock
        /\ pc = "games"
        /\ conditionFilteredComparables = <<>>
        /\ scoredComparables = <<>>
        /\ relevantComparables = <<>>
        /\ withoutOutliers = <<>>
        /\ rollingAverages = NoRolling
        /\ result = NoResult

\* addGame up to its await: the game is shown at once under a local id and
\* its row, which has no id, is sent to the cloud
addGame ==
    \E game \in AssetInputs :
        /\ pc = "games"
        /\ calls < MaxCalls
        /\ ~Refreshing
        /\ LET newGame == [game EXCEPT !.id = LocalId(nextLocalId)]
           IN /\ SetAndSave(<<newGame>> \o games)
              /\ requests' = requests \cup
                     {Request("insert", newGame.id, assetToDbRow(game))}
        /\ nextLocalId' = nextLocalId + 1
        /\ calls' = calls + 1
        /\ UNCHANGED <<loading, gamesTable, responses, nextUuid>>
        /\ UNCHANGED valuationVars

\* the cloud serves an insert: the row gets a generated id and is returned
InsertServed ==
    \E req \in requests :
        /\ req.kind = "insert"
        /\ LET data == DbRow(Uuid(nextUuid), req.row.name, req.row.image_url)
           IN /\ gamesTable' = <<data>> \o gamesTable
              /\ responses' = responses \cup {Response("insert", req.id, <<data>>)}
        /\ requests' = requests \ {req}
        /\ nextUuid' = nextUuid + 1
        /\ UNCHANGED <<games, localStorage, loading, nextLocalId, calls>>
        /\ UNCHANGED valuationVars

\* addGame after its await: the game that still has the local id is replaced
\* by the game of the returned row
InsertReturned ==
    \E resp \in responses :
        /\ resp.kind = "insert"
        /\ LET realGame == dbRowToAsset(resp.data[1])
               Replace(g) == IF g.id = resp.id THEN realGame ELSE g
           IN SetAndSave(MapSeq(Replace, games))
        /\ responses' = responses \ {resp}
        /\ UNCHANGED <<loading, gamesTable, requests, nextLocalId, nextUuid, calls>>
        /\ UNCHANGED valuationVars

\* updateGame up to its await, called on a game of the list
updateGame ==
    \E i \in 1..Len(games), input \in AssetInputs :
        /\ pc = "games"
        /\ calls < MaxCalls
        /\ ~Refreshing
        /\ LET game == [input EXCEPT !.id = games[i].id]
               Replace(g) == IF g.id = game.id THEN game ELSE g
           IN /\ game # games[i]
              /\ SetAndSave(MapSeq(Replace, games))
              /\ requests' = requests \cup
                     {Request("update", game.id, assetToDbRow(game))}
        /\ calls' = calls + 1
        /\ UNCHANGED <<loading, gamesTable, responses, nextLocalId, nextUuid>>
        /\ UNCHANGED valuationVars

\* the cloud serves an update: the rows whose id is the request's get its
\* columns; updateGame does nothing more once it has succeeded
UpdateServed ==
    \E req \in requests :
        /\ req.kind = "update"
        /\ LET Updated(row) ==
                   IF row.id = req.id
                   THEN DbRow(row.id, req.row.name, req.row.image_url)
                   ELSE row
           IN gamesTable' = MapSeq(Updated, gamesTable)
        /\ requests' = requests \ {req}
        /\ UNCHANGED <<games, localStorage, loading, responses,
                       nextLocalId, nextUuid, calls>>
        /\ UNCHANGED valuationVars

\* deleteGame up to its await, called on a game of the list
deleteGame ==
    \E i \in 1..Len(games) :
        /\ pc = "games"
        /\ calls < MaxCalls
        /\ ~Refreshing
        /\ LET gameId == games[i].id
           IN /\ SetAndSave(SelectSeq(games, LAMBDA g : g.id # gameId))
              /\ requests' = requests \cup {Request("delete", gameId, NoRow)}
        /\ calls' = calls + 1
        /\ UNCHANGED <<loading, gamesTable, responses, nextLocalId, nextUuid>>
        /\ UNCHANGED valuationVars

\* the cloud serves a delete: the rows whose id is the request's are removed;
\* deleteGame does nothing more once it has succeeded
DeleteServed ==
    \E req \in requests :
        /\ req.kind = "delete"
        /\ gamesTable' = SelectSeq(gamesTable, LAMBDA row : row.id # req.id)
        /\ requests' = requests \ {req}
        /\ UNCHANGED <<games, localStorage, loading, responses,
                       nextLocalId, nextUuid, calls>>
        /\ UNCHANGED valuationVars

\* refreshGames up to its await, called once every earlier request has
\* completed
refreshGames ==
    /\ pc = "games"
    /\ Quiescent
    /\ loading' = TRUE
    /\ requests' = requests \cup {Request("select", NoId, NoRow)}
    /\ UNCHANGED <<games, localStorage, gamesTable, responses,
                   nextLocalId, nextUuid, calls>>
    /\ UNCHANGED valuationVars

\* the cloud serves the select: the rows of the user, newest first
SelectServed ==
    \E req \in requests :
        /\ req.kind = "select"
        /\ responses' = responses \cup {Response("select", NoId, gamesTable)}
        /\ requests' = requests \ {req}
        /\ UNCHANGED <<games, localStorage, loading, gamesTable,
                       nextLocalId, nextUuid, calls>>
        /\ UNCHANGED valuationVars

\* fetchGames after its await: the list becomes the games of the rows
SelectReturned ==
    \E resp \in responses :
        /\ resp.kind = "select"
        /\ SetAndSave(MapSeq(dbRowToAsset, resp.data))
        /\ loading' = FALSE
        /\ responses' = responses \ {resp}
        /\ UNCHANGED <<gamesTable, requests, nextLocalId, nextUuid, calls>>
        /\ UNCHANGED valuationVars

NextGames ==
    \/ addGame
    \/ InsertServed
    \/ InsertReturned
    \/ updateGame
    \/ UpdateServed
    \/ deleteGame
    \/ DeleteServed
    \/ refreshGames
    \/ SelectServed
    \/ SelectReturned

SpecGames == InitGames /\ [][NextGames]_vars

(***************************************************************************)
(* Properties                                                              *)
(***************************************************************************)
Done == pc = "done"

\* calculateValuation went past the relevance check: a successful valuation
Succeeded == Done /\ Len(relevantComparables) > 0

\* the terminal empty result, written out
EmptyResultWith(reason) ==
    [estimatedValue  |-> 0,
     confidence      |-> "low",
     confidenceScore |-> 0,
     priceRange      |-> [low |-> 0, median |-> 0, high |-> 0],
     rollingAverage  |-> [days30 |-> <<>>, days90 |-> <<>>, days180 |-> <<>>],
     comparablesUsed |-> 0,
     adjustments     |-> <<>>,
     methodology     |-> reason]

\* a condition label that marks the sale as sealed, resp. as loose
SealedLabelled(comp) ==
    \/ includes(toLowerCase(comp.condition), "sealed")
    \/ includes(toLowerCase(comp.condition), "new")

LooseLabelled(comp) == includes(toLowerCase(comp.condition), "loose")

AllComparables(P(_)) ==
    Len(comparables) > 0 /\ \A i \in 1..Len(comparables) : P(comparables[i])

\* C1: condition isolation.  For a loose target and a non-empty list of
\* sealed-labelled comparables, filterByConditionType keeps nothing and
\* calculateValuation returns the empty result (estimatedValue 0,
\* comparablesUsed 0), whatever else the labels and names contain.
C1_ConditionIsolation ==
    (metadata.conditionType = "loose" /\ AllComparables(SealedLabelled))
        => /\ pc \notin {"start", "filter"} => conditionFilteredComparables = <<>>
           /\ Done => result.estimatedValue = 0 /\ result.comparablesUsed = 0

\* the tight cluster of the priced listings, and its median
TightPrices == {RatInt(1), Rat(11, 10)}

clusterOf(comps) == SelectSeq(comps, LAMBDA c : c.adjustedPrice \in TightPrices)

medianOf(prices) ==
    LET sorted == sortAscending(prices)
        n      == Len(sorted)
    IN  IF n % 2 = 1 THEN sorted[(n + 1) \div 2]
        ELSE RatDiv(RatAdd(sorted[n \div 2], sorted[n \div 2 + 1]), RatInt(2))

\* at least 4 tight-priced comparables and one more, priced at 100 times the
\* cluster median, reached removeOutliers
OutlierCase ==
    /\ pc \in {"rolling", "aggregate", "done"}
    /\ Len(clusterOf(relevantComparables)) >= 4
    /\ Len(relevantComparables) = Len(clusterOf(relevantComparables)) + 1
    /\ \E i \in 1..Len(relevantComparables) :
          relevantComparables[i].adjustedPrice =
              RatMul(RatInt(100), medianOf(pricesOf(clusterOf(relevantComparables))))

\* C2: outlier invariance.  Adding one comparable priced at 100 times the
\* cluster median to at least 4 tight-priced comparables changes nothing:
\* removeOutliers drops it, and estimatedValue is that of the cluster alone.
C2_OutlierInvariance ==
    OutlierCase
        => /\ withoutOutliers = clusterOf(relevantComparables)
           /\ Done => result.estimatedValue =
                        MathRound(baseWeightedAverage(clusterOf(relevantComparables)))

\* exactly 6 comparables, each with similarity >= 80 and sold at most 7 days
\* before the call, reached removeOutliers
SixGoodComparables ==
    /\ Len(relevantComparables) = 6
    /\ \A i \in 1..6 :
          /\ relevantComparables[i].similarityScore >= 80
          /\ daysDiffOf(relevantComparables[i].soldDate, startClock) \in 0..7

\* C3: confidence tier consistency.  Six comparables with similarity >= 80,
\* sold within the last 7 days, give confidence 'high' for every choice of
\* their prices, also when removeOutliers drops some of them.
C3_ConfidenceTier ==
    (Done /\ SixGoodComparables) => result.confidence = "high"

C3_Witness ==
    /\ Done
    /\ SixGoodComparables
    /\ Len(withoutOutliers) < 6
    /\ result.confidence = "high"

\* C4: determinism.  The result is a function of the target, the comparable
\* list and one 'now': every recency weight and every rolling window of a
\* call is computed against the clock at which the call started.
C4_Determinism ==
    Done => result = calculateValuation(metadata, comparables,
                                        [i \in 1..Len(comparables) |-> startClock],
                                        startClock)

\* the reason strings of the three empty cases, written out
NoDataText == "No comparable sales data available"

NoConditionText ==
    CASE metadata.conditionType = "sealed" -> "No SEALED condition sales found"
      [] metadata.conditionType = "cib"    -> "No CIB condition sales found"
      [] metadata.conditionType = "loose"  -> "No LOOSE condition sales found"
      [] OTHER                             -> "No matching condition sales found"

NoSimilarText == "No sufficiently similar comparables found"

NothingRelevant ==
    /\ Len(conditionFilteredComparables) > 0
    /\ Len(scoredComparables) = Len(conditionFilteredComparables)
    /\ \A i \in 1..Len(scoredComparables) : scoredComparables[i].similarityScore < 20

\* C5: empty-result contract.  calculateValuation returns the terminal empty
\* result with its own reason when (i) the input list is empty, (ii) the
\* condition filter keeps nothing, (iii) no comparable has similarity >= 20;
\* the three reasons differ.
C5_EmptyResult ==
    Done =>
        /\ Len(comparables) = 0 => result = EmptyResultWith(NoDataText)
        /\ (Len(comparables) > 0 /\ Len(conditionFilteredComparables) = 0)
               => result = EmptyResultWith(NoConditionText)
        /\ NothingRelevant => result = EmptyResultWith(NoSimilarText)
        /\ Cardinality({NoDataText, NoConditionText, NoSimilarText}) = 3

C5_Witness ==
    /\ Done
    /\ NothingRelevant
    /\ result = EmptyResultWith(NoSimilarText)

\* C6: an empty result is distinguishable from a successful valuation.  A
\* call that reaches the aggregation steps uses at least one comparable and
\* returns a result that createEmptyResult builds for no reason string.
C6_Distinguishable ==
    /\ pc \in {"rolling", "aggregate"} => Len(withoutOutliers) >= 1
    /\ Succeeded =>
          /\ result.comparablesUsed >= 1
          /\ result.methodology \notin {NoDataText, NoConditionText, NoSimilarText}
          /\ result # EmptyResultWith(result.methodology)

\* a successful valuation whose rounded estimate is 0
C6_Witness ==
    /\ Succeeded
    /\ result.estimatedValue = 0
    /\ result.priceRange = [low |-> 0, median |-> 0, high |-> 0]

\* C7: for a target of the complete bucket and a list made only of
\* loose-condition listings, calculateValuation returns the empty result
\* whose reason names the condition, never a price from the loose listings.
C7_LooseForComplete ==
    (Done /\ metadata.conditionType = "cib" /\ AllComparables(LooseLabelled))
        => result = EmptyResultWith("No CIB condition sales found")

\* C8: range ordering.  For every non-empty post-outlier set the price range
\* has low <= median <= high.
C8_RangeOrdering ==
    Succeeded =>
        /\ result.priceRange.low <= result.priceRange.median
        /\ result.priceRange.median <= result.priceRange.high

C8_Witness ==
    /\ Succeeded
    /\ result.priceRange.low < result.priceRange.median
    /\ result.priceRange.median < result.priceRange.high

\* C9: similarity bounds.  For every target metadata and every comparable,
\* scoreComparable yields a similarityScore between 0 and 100.
C9_SimilarityBounds ==
    \A i \in 1..Len(scoredComparables) :
        scoredComparables[i].similarityScore \in 0..100

\* a comparable that matches the name and all four attributes of the target
C9_Witness ==
    /\ metadata.platform # "" /\ metadata.conditionType # ""
    /\ metadata.gradingCompany \notin {"", "raw"} /\ metadata.region # ""
    /\ metadata.grade \notin {NoGrade, 0}
    /\ \E i \in 1..Len(scoredComparables) : scoredComparables[i].similarityScore = 100

\* C10: recency-weight bounds.  calculateTimeWeight returns w with
\* 0 < w <= 1 for every sale date, in the future of 'now' and beyond 365 days.
C10_TimeWeightBounds ==
    \A i \in 1..Len(scoredComparables) :
        /\ RatLess(RatInt(0), scoredComparables[i].timeWeight)
        /\ RatLeq(scoredComparables[i].timeWeight, RatInt(1))

\* a sale older than 365 days, weighted by the last anchor
C10_Witness ==
    \E i \in 1..Len(scoredComparables) :
        /\ daysDiffOf(scoredComparables[i].soldDate, startClock) > 365
        /\ scoredComparables[i].timeWeight = Rat(15, 100)

\* a sale dated after the call is scored too, with weight 1
FutureSaleScored ==
    \E i \in 1..Len(scoredComparables) :
        /\ scoredComparables[i].soldDate > clock
        /\ scoredComparables[i].timeWeight = RatInt(1)

\* C11: monotonic recency.  Of two sales weighted against the same 'now'
\* (the clock has not moved since the call started), the later one never
\* gets the smaller time weight, whether the two ages lie in one
\* interpolation segment or on both sides of an anchor.
C11_MonotonicRecency ==
    (/\ Len(scoredComparables) = 2
     /\ clock = startClock
     /\ \A i \in 1..2 : scoredComparables[i].soldDate # InvalidDate
     /\ scoredComparables[1].soldDate > scoredComparables[2].soldDate)
        => RatLeq(scoredComparables[2].timeWeight, scoredComparables[1].timeWeight)

\* two sales on both sides of the 7-day anchor, the later one weighing more
C11_Witness ==
    /\ Len(scoredComparables) = 2
    /\ clock = startClock
    /\ daysDiffOf(scoredComparables[1].soldDate, startClock) = 6
    /\ daysDiffOf(scoredComparables[2].soldDate, startClock) = 8
    /\ RatLess(scoredComparables[2].timeWeight, scoredComparables[1].timeWeight)

\* the comparables of the call whose soldDate can be parsed
DatedComparables == {i \in 1..Len(comparables) : comparables[i].soldDate # InvalidDate}

\* C12: a comparable whose soldDate cannot be parsed is rejected.  The
\* result counts and prices only the comparables with a parsable date; a
\* call that has none of them returns no estimate.
C12_UnparsableDateRejected ==
    Done => /\ result.comparablesUsed <= Cardinality(DatedComparables)
            /\ DatedComparables = {} => result.estimatedValue = 0

\* count, average similarity and average time weight of the post-outlier
\* comparables
UsedCount == Len(withoutOutliers)

UsedAvgSimilarity ==
    RatDiv(RatSum([i \in 1..UsedCount |-> RatInt(withoutOutliers[i].similarityScore)]),
           RatInt(UsedCount))

UsedAvgTimeWeight ==
    RatDiv(RatSum([i \in 1..UsedCount |-> withoutOutliers[i].timeWeight]),
           RatInt(UsedCount))

\* C13: confidence score.  On a successful valuation confidenceScore is
\* round(min(count * 8, 40) + avgSimilarity / 100 * 40 + avgTimeWeight * 20)
\* over the post-outlier comparables, an integer in 0..100.
C13_ConfidenceScore ==
    Succeeded =>
        /\ result.confidenceScore =
              MathRound(RatAdd(RatInt(IF UsedCount * 8 < 40 THEN UsedCount * 8 ELSE 40),
                               RatAdd(RatMul(UsedAvgSimilarity, Rat(40, 100)),
                                      RatMul(UsedAvgTimeWeight, RatInt(20)))))
        /\ result.confidenceScore \in 0..100

\* more than five comparables were used, so the cap of 40 applies
C13_Witness ==
    /\ Succeeded
    /\ UsedCount * 8 > 40
    /\ result.confidenceScore \in 41..99

\* C14: confidence tier.  'high' iff count >= 5 and avgSimilarity >= 70;
\* otherwise 'medium' iff count >= 3 and avgSimilarity >= 50; otherwise 'low'.
C14_ConfidenceTierRule ==
    Succeeded =>
        result.confidence =
            IF UsedCount >= 5 /\ RatLeq(RatInt(70), UsedAvgSimilarity) THEN "high"
            ELSE IF UsedCount >= 3 /\ RatLeq(RatInt(50), UsedAvgSimilarity) THEN "medium"
            ELSE "low"

\* enough comparables for 'high' whose average similarity only allows 'medium'
C14_Witness ==
    /\ Succeeded
    /\ UsedCount >= 5
    /\ RatLess(UsedAvgSimilarity, RatInt(70))
    /\ result.confidence = "medium"

\* the ascending prices of the post-outlier comparables and, counted from 0,
\* the rank clamp(ceil(p / 100 * n) - 1, 0, n - 1)
UsedPricesSorted == sortAscending([i \in 1..UsedCount |-> withoutOutliers[i].adjustedPrice])

NearestRank(p) ==
    LET k == (p * UsedCount + 99) \div 100 - 1
    IN  IF k < 0 THEN 0 ELSE IF k > UsedCount - 1 THEN UsedCount - 1 ELSE k

RankedPrice(p) == UsedPricesSorted[NearestRank(p) + 1]

\* C15, as stated: low, median and high of the price range are the prices
\* at the nearest ranks for p = 25, 50, 75 among the ascending post-outlier
\* prices.
C15_PriceRangeElements ==
    Succeeded =>
        /\ RatInt(result.priceRange.low) = RankedPrice(25)
        /\ RatInt(result.priceRange.median) = RankedPrice(50)
        /\ RatInt(result.priceRange.high) = RankedPrice(75)

\* C15, amended: low, median and high of the price range are the prices at
\* the nearest ranks for p = 25, 50, 75 among the ascending post-outlier
\* prices, each rounded to the nearest integer; no interpolation.
C15_PriceRangeRounded ==
    Succeeded =>
        /\ result.priceRange.low = MathRound(RankedPrice(25))
        /\ result.priceRange.median = MathRound(RankedPrice(50))
        /\ result.priceRange.high = MathRound(RankedPrice(75))

\* four or more prices, three different ranks, and a ranked price that is
\* not a whole number
C15_Witness ==
    /\ Succeeded
    /\ UsedCount >= 4
    /\ RankedPrice(25) = Rat(2, 5)
    /\ RankedPrice(50) = Rat(11, 10)
    /\ RankedPrice(75) = RatInt(100)
    /\ result.priceRange = [low |-> 0, median |-> 1, high |-> 100]

\* the post-outlier comparables sold within h days of now
SoldWithin(h, now) ==
    SelectSeq(withoutOutliers,
              LAMBDA c : c.soldDate # InvalidDate /\ now - c.soldDate <= h * TicksPerDay)

\* their finalWeight-weighted average price, null when there are none or
\* their weights add up to zero
WindowAverage(h, now) ==
    LET within == SoldWithin(h, now)
        weights == RatSum([i \in 1..Len(within) |-> within[i].finalWeight])
        priced  == RatSum([i \in 1..Len(within) |->
                              RatMul(within[i].adjustedPrice, within[i].finalWeight)])
    IN  IF within = <<>> \/ weights = RatInt(0) THEN <<>>
        ELSE RatDiv(priced, weights)

\* C16: rolling averages.  For some instant 'now' of the call and each
\* horizon h in {30, 90, 180}, the rolling average is null iff no post-outlier
\* comparable was sold within h days of now (or their weights add up to
\* zero), and is otherwise the finalWeight-weighted average price of exactly
\* those comparables; the result returns these values.
C16_RollingAverages ==
    /\ pc \in {"aggregate", "done"} =>
          \E now \in startClock..clock :
              rollingAverages = [days30  |-> WindowAverage(30, now),
                                 days90  |-> WindowAverage(90, now),
                                 days180 |-> WindowAverage(180, now)]
    /\ Succeeded => result.rollingAverage = rollingAverages

\* two sales of different weight and price, both outside the 30-day window
\* and inside the 90-day window
C16_Witness ==
    /\ Succeeded
    /\ Len(withoutOutliers) = 2
    /\ withoutOutliers[1].finalWeight # withoutOutliers[2].finalWeight
    /\ result.rollingAverage.days30 = <<>>
    /\ result.rollingAverage.days90 # <<>>
    /\ RatLess(RatInt(10), result.rollingAverage.days90)
    /\ RatLess(result.rollingAverage.days90, RatInt(20))

\* the target has a grade and a grading company other than 'raw'
GradedTarget ==
    /\ metadata.grade # NoGrade
    /\ metadata.gradingCompany # ""
    /\ metadata.gradingCompany # "raw"

\* the finalWeight-weighted average price of the post-outlier comparables
UsedWeightedAverage ==
    RatDiv(RatSum([i \in 1..UsedCount |->
                      RatMul(withoutOutliers[i].adjustedPrice, withoutOutliers[i].finalWeight)]),
           RatSum([i \in 1..UsedCount |-> withoutOutliers[i].finalWeight]))

\* multiplier of the target's grade over the multiplier of grade 8.5
GradeFactor == Rat(getGradeMultiplier(metadata.grade), getGradeMultiplier(85))

\* C17: grade adjustment applicability.  The weighted average is multiplied
\* by the grade factor only for a target with a grade and a grading company
\* other than 'raw'; one adjustment of type 'grade' is recorded iff that
\* factor is not 1; for an ungraded or raw target there is no adjustment and
\* estimatedValue is the rounded weighted average.
C17_GradeAdjustment ==
    Succeeded =>
        IF GradedTarget
        THEN /\ result.estimatedValue = MathRound(RatMul(UsedWeightedAverage, GradeFactor))
             /\ (result.adjustments # <<>>) <=> (GradeFactor # RatInt(1))
             /\ result.adjustments # <<>> =>
                    /\ Len(result.adjustments) = 1
                    /\ result.adjustments[1].type = "grade"
                    /\ result.adjustments[1].factor = GradeFactor
        ELSE /\ result.adjustments = <<>>
             /\ result.estimatedValue = MathRound(UsedWeightedAverage)

\* a raw target with a high grade: no adjustment, the estimate is the
\* weighted average
C17_Witness ==
    /\ Succeeded
    /\ metadata.gradingCompany = "raw"
    /\ metadata.grade = 98
    /\ result.adjustments = <<>>
    /\ result.estimatedValue = 10

\* a graded target whose factor is 1: nothing is recorded
GradedAtBaseline ==
    /\ Succeeded
    /\ GradedTarget
    /\ metadata.grade = 85
    /\ result.adjustments = <<>>

\* the table value at the highest threshold <= g; the lowest multiplier of
\* the table when g is below every threshold
TableMultiplier(g) ==
    LET reached == {t \in DOMAIN GRADE_MULTIPLIERS : t <= g}
    IN  IF reached = {}
        THEN CHOOSE m \in {GRADE_MULTIPLIERS[t] : t \in DOMAIN GRADE_MULTIPLIERS} :
                 \A t \in DOMAIN GRADE_MULTIPLIERS : m <= GRADE_MULTIPLIERS[t]
        ELSE GRADE_MULTIPLIERS[CHOOSE t \in reached : \A u \in reached : u <= t]

\* C18: grade multiplier lookup.  For a graded target of any grade g the
\* estimate is the weighted average times TableMultiplier(g) /
\* TableMultiplier(8.5), and that factor is the one recorded.
C18_GradeMultiplier ==
    (Succeeded /\ GradedTarget) =>
        LET factor == Rat(TableMultiplier(metadata.grade), TableMultiplier(85))
        IN  /\ result.estimatedValue = MathRound(RatMul(UsedWeightedAverage, factor))
            /\ result.adjustments # <<>> => result.adjustments[1].factor = factor

\* a grade between two thresholds takes the multiplier of the lower one
C18_Witness ==
    /\ Succeeded
    /\ GradedTarget
    /\ metadata.grade = 97
    /\ result.adjustments # <<>>
    /\ result.adjustments[1].factor = Rat(30, 11)
    /\ result.estimatedValue = 30

\* a grade below every threshold takes the floor multiplier
GradeBelowTable ==
    /\ Succeeded
    /\ GradedTarget
    /\ metadata.grade = 12
    /\ result.adjustments[1].factor = Rat(3, 11)
    /\ result.estimatedValue = 3

\* the three condition buckets, and the words by which a condition label
\* names one of them
Buckets == {"sealed", "cib", "loose"}

BucketWords(bucket) ==
    CASE bucket = "sealed" -> <<"sealed", "new">>
      [] bucket = "cib"    -> <<"cib", "complete">>
      [] bucket = "loose"  -> <<"loose">>

\* the comparable was kept by filterByConditionType
KeptByFilter(comp) ==
    \E i \in 1..Len(conditionFilteredComparables) : conditionFilteredComparables[i] = comp

\* the label matches the target's bucket
LabelMatchesTarget(comp) ==
    someIncluded(conditionFieldMatch(metadata.conditionType), toLowerCase(comp.condition))

\* the label names a bucket other than the target's
LabelSignalsOther(comp) ==
    \E bucket \in Buckets \ {metadata.conditionType} :
        someIncluded(BucketWords(bucket), toLowerCase(comp.condition))

\* C19: condition filter, label rule.  For each target bucket, a comparable
\* whose non-empty label names another bucket (sealed, complete or loose) and
\* does not match the target's bucket is not kept, whatever its name holds.
C19_LabelRule ==
    (metadata.conditionType \in Buckets /\ pc \notin {"start", "filter"}) =>
        \A i \in 1..Len(comparables) :
            (/\ comparables[i].condition # ""
             /\ LabelSignalsOther(comparables[i])
             /\ ~LabelMatchesTarget(comparables[i]))
                => ~KeptByFilter(comparables[i])

\* the name holds a keyword of the target's bucket, resp. of another bucket
NameMatchesTarget(comp) ==
    someIncluded(conditionKeywords(metadata.conditionType), toLowerCase(comp.name))

NameSignalsOther(comp) ==
    \E bucket \in Buckets \ {metadata.conditionType} :
        someIncluded(conditionKeywords(bucket), toLowerCase(comp.name))

\* C20: condition filter, name rule.  When the label decides nothing (it is
\* absent, or neither matches the target's bucket nor names another), a
\* comparable whose name holds a keyword of another bucket's keyword set and
\* no keyword of the target's bucket is not kept.
C20_NameRule ==
    (metadata.conditionType \in Buckets /\ pc \notin {"start", "filter"}) =>
        \A i \in 1..Len(comparables) :
            (/\ ~LabelMatchesTarget(comparables[i])
             /\ ~LabelSignalsOther(comparables[i])
             /\ NameSignalsOther(comparables[i])
             /\ ~NameMatchesTarget(comparables[i]))
                => ~KeptByFilter(comparables[i])

\* the call is past removeOutliers
PastOutliers == pc \in {"rolling", "aggregate"} \/ Succeeded

\* the scored comparables with similarityScore >= 20
AboveFloor == SelectSeq(scoredComparables, LAMBDA c : c.similarityScore >= 20)

\* the comparables of a list whose price p has mean - 2 sigma <= p <= mean +
\* 2 sigma, mean and population standard deviation sigma taken over the
\* whole list: (p - mean)^2 <= 4 sigma^2
TwoSigmaKept(list) ==
    LET n        == Len(list)
        mean     == RatDiv(RatSum([i \in 1..n |-> list[i].adjustedPrice]), RatInt(n))
        sq(p)    == RatMul(RatSub(p, mean), RatSub(p, mean))
        variance == RatDiv(RatSum([i \in 1..n |-> sq(list[i].adjustedPrice)]), RatInt(n))
    IN  SelectSeq(list, LAMBDA c : RatLeq(sq(c.adjustedPrice), RatMul(RatInt(4), variance)))

OutlierRule(list) == IF Len(list) < 4 THEN list ELSE TwoSigmaKept(list)

\* C21: relevance floor.  Nothing with similarityScore < 20 is among the
\* comparables the result is computed from, and the outlier statistics are
\* taken over the comparables with similarityScore >= 20 only.
C21_RelevanceFloor ==
    /\ PastOutliers =>
          /\ \A i \in 1..Len(withoutOutliers) : withoutOutliers[i].similarityScore >= 20
          /\ withoutOutliers = OutlierRule(AboveFloor)
    /\ Succeeded =>
          /\ result.comparablesUsed = Len(withoutOutliers)
          /\ result.comparablesUsed <= Len(AboveFloor)

\* four or more relevant sales at one price and a sale below the floor at
\* 100 times that price: the relevant ones are all kept
C21_Witness ==
    /\ Succeeded
    /\ Len(AboveFloor) >= 4
    /\ Len(AboveFloor) < Len(scoredComparables)
    /\ \E i \in 1..Len(scoredComparables) :
          /\ scoredComparables[i].similarityScore < 20
          /\ scoredComparables[i].adjustedPrice = RatInt(100)
    /\ withoutOutliers = AboveFloor
    /\ result.estimatedValue = 1

\* C22: outlier filter rule.  removeOutliers returns fewer than 4
\* comparables unchanged, and otherwise keeps exactly those within two
\* population standard deviations of the mean of all input prices.
C22_OutlierRule ==
    PastOutliers => withoutOutliers = OutlierRule(relevantComparables)

\* five or more comparables of which some, not all, were removed
C22_Witness ==
    /\ PastOutliers
    /\ Len(relevantComparables) >= 5
    /\ Len(withoutOutliers) < Len(relevantComparables)
    /\ Len(withoutOutliers) >= 1

\* three comparables, one at 100 times the others' price, all kept
SmallSampleKept ==
    /\ PastOutliers
    /\ Len(relevantComparables) = 3
    /\ relevantComparables[3].adjustedPrice = RatInt(100)
    /\ relevantComparables[1].adjustedPrice = RatInt(1)
    /\ withoutOutliers = relevantComparables

\* the sum of the final weights of the post-outlier comparables, and the
\* plain mean of their prices
UsedTotalWeight == RatSum([i \in 1..UsedCount |-> withoutOutliers[i].finalWeight])

UsedPlainMean ==
    RatDiv(RatSum([i \in 1..UsedCount |-> withoutOutliers[i].adjustedPrice]),
           RatInt(UsedCount))

\* C23: weighted average.  finalWeight is similarityScore / 100 * timeWeight;
\* before the grade adjustment calculateWeightedAverage gives sum(price *
\* finalWeight) / sum(finalWeight), and the plain mean of the prices when the
\* total weight is zero.
C23_WeightedAverage ==
    pc = "averaged" =>
        /\ \A i \in 1..UsedCount :
              withoutOutliers[i].finalWeight =
                  RatMul(Rat(withoutOutliers[i].similarityScore, 100),
                         withoutOutliers[i].timeWeight)
        /\ result.weightedAverage =
              RatMul(IF UsedTotalWeight = RatInt(0) THEN UsedPlainMean
                     ELSE UsedWeightedAverage,
                     IF GradedTarget THEN GradeFactor ELSE RatInt(1))

\* two sales of zero weight at different prices: the plain mean
C23_Witness ==
    /\ pc = "averaged"
    /\ UsedCount = 2
    /\ UsedTotalWeight = RatInt(0)
    /\ withoutOutliers[1].adjustedPrice # withoutOutliers[2].adjustedPrice
    /\ result.weightedAverage = RatInt(15)

\* two sales of different positive weight at different prices
WeightedCase ==
    /\ pc = "averaged"
    /\ UsedCount = 2
    /\ ~GradedTarget
    /\ RatLess(RatInt(0), withoutOutliers[1].finalWeight)
    /\ RatLess(withoutOutliers[1].finalWeight, withoutOutliers[2].finalWeight)
    /\ withoutOutliers[1].adjustedPrice # withoutOutliers[2].adjustedPrice
    /\ result.weightedAverage # RatInt(15)

\* the anchors of the decay curve: days and weight in hundredths
CurveAnchors ==
    << <<0, 100>>, <<7, 95>>, <<14, 90>>, <<30, 85>>,
       <<60, 70>>, <<90, 55>>, <<180, 35>>, <<365, 15>> >>

\* the curve at an age >= 0: the anchor's weight at an anchor, the straight
\* line between the neighbouring anchors elsewhere, 0.15 from 365 days on
CurveAt(age) ==
    IF age >= 365 THEN Rat(15, 100)
    ELSE LET k  == CHOOSE j \in 1..7 : CurveAnchors[j][1] <= age /\ age < CurveAnchors[j + 1][1]
             d0 == CurveAnchors[k][1]
             w0 == CurveAnchors[k][2]
             d1 == CurveAnchors[k + 1][1]
             w1 == CurveAnchors[k + 1][2]
         IN  Rat(w0 * (d1 - age) + w1 * (age - d0), 100 * (d1 - d0))

\* C24: time decay curve.  A sale aged 0 days or more against the clock read
\* for it has the weight of the curve: 1.00, 0.95, 0.90, 0.85, 0.70, 0.55,
\* 0.35, 0.15 at 0, 7, 14, 30, 60, 90, 180, 365 days, linear in between,
\* 0.15 beyond.
C24_DecayCurve ==
    \A i \in 1..Len(scoredComparables) :
        scoredComparables[i].soldDate # InvalidDate =>
            \E now \in startClock..clock :
                LET age == daysDiffOf(scoredComparables[i].soldDate, now)
                IN  age < 0 \/ scoredComparables[i].timeWeight = CurveAt(age)

\* a sale 45 days old, half way between the anchors at 30 and 60 days
C24_Witness ==
    /\ Len(scoredComparables) = 1
    /\ clock = startClock
    /\ daysDiffOf(scoredComparables[1].soldDate, startClock) = 45
    /\ scoredComparables[1].timeWeight = Rat(775, 1000)

\* a sale older than the last anchor
BeyondLastAnchor ==
    /\ Len(scoredComparables) = 1
    /\ clock = startClock
    /\ daysDiffOf(scoredComparables[1].soldDate, startClock) > 365
    /\ scoredComparables[1].timeWeight = Rat(15, 100)

\* C25: removeOutliers never returns an empty list for a non-empty input.
\* Past the relevance check at least one comparable is left, so
\* comparablesUsed >= 1 and every percentile rank is an index of the prices.
C25_NeverEmpty ==
    /\ PastOutliers => Len(withoutOutliers) >= 1
    /\ Succeeded =>
          /\ result.comparablesUsed >= 1
          /\ \A p \in {25, 50, 75} : NearestRank(p) + 1 \in 1..Len(UsedPricesSorted)

\* four or more comparables at one and the same price: sigma is 0 and all
\* of them are kept
C25_Witness ==
    /\ Succeeded
    /\ Len(relevantComparables) >= 4
    /\ \A i \in 1..Len(relevantComparables) :
          relevantComparables[i].adjustedPrice = relevantComparables[1].adjustedPrice
    /\ withoutOutliers = relevantComparables

\* C26: positive weights.  Every comparable past removeOutliers has
\* similarityScore >= 20, timeWeight >= 0.15 and finalWeight > 0; the total
\* weight is positive, and a rolling average is null only when no comparable
\* lies in its window.
C26_PositiveWeights ==
    /\ PastOutliers =>
          /\ \A i \in 1..UsedCount :
                /\ withoutOutliers[i].similarityScore >= 20
                /\ RatLeq(Rat(15, 100), withoutOutliers[i].timeWeight)
                /\ RatLess(RatInt(0), withoutOutliers[i].finalWeight)
          /\ RatLess(RatInt(0), UsedTotalWeight)
    /\ Succeeded =>
          \E now \in startClock..clock :
              /\ result.rollingAverage.days30 = <<>> => SoldWithin(30, now) = <<>>
              /\ result.rollingAverage.days90 = <<>> => SoldWithin(90, now) = <<>>
              /\ result.rollingAverage.days180 = <<>> => SoldWithin(180, now) = <<>>

\* a sale older than 365 days reaches aggregation with the smallest weight
C26_Witness ==
    /\ Succeeded
    /\ UsedCount = 1
    /\ withoutOutliers[1].soldDate # InvalidDate
    /\ daysDiffOf(withoutOutliers[1].soldDate, startClock) > 365
    /\ withoutOutliers[1].finalWeight = Rat(15, 100)
    /\ result.estimatedValue = 10

WithinSpan(avg) ==
    \/ avg = <<>>
    \/ /\ RatLeq(UsedPricesSorted[1], avg)
       /\ RatLeq(avg, UsedPricesSorted[UsedCount])

OutliersRemoved == Len(relevantComparables) - Len(withoutOutliers)

\* C29: the methodology reports exclusions faithfully.  The phrase
\* 'outliers excluded' is present iff removeOutliers removed something, and
\* the number in front of it is the number removeOutliers removed, also when
\* the relevance floor dropped comparables.
C29_MethodologyExclusions ==
    Succeeded =>
        /\ includes(result.methodology, "outliers excluded") <=> OutliersRemoved > 0
        /\ OutliersRemoved > 0 =>
              includes(result.methodology,
                       "(" \o NatToString(OutliersRemoved) \o " outliers excluded)")


\* the games of the local list, as a set
LocalGames == { games[i] : i \in 1..Len(games) }

\* the games of the rows of the cloud table, as a set
CloudGames == { dbRowToAsset(gamesTable[i]) : i \in 1..Len(gamesTable) }

\* C30: once every request of the addGame, updateGame and deleteGame calls
\* has completed, the local list holds the same games with the same field
\* values as the cloud table, so that a refreshGames changes nothing
C30_LocalMatchesCloud == Quiescent => LocalGames = CloudGames

====
